---- MODULE Spec2Model ----
(***************************************************************************)
(* A model of awc-retry (src/src/lib.rs): the Retry builder, the           *)
(* RetryService wrapper around a connector, and the attempt loop of        *)
(* RetryService::call, cut at its await points.                            *)
(***************************************************************************)
EXTENDS Integers, Sequences, FiniteSets, TLC

(***************************************************************************)
(* Bounds of the model.                                                    *)
(***************************************************************************)
\* largest "small" retry budget passed to Retry::new (besides u8::MAX)
MaxRetries == 2
\* largest number of Retry::policy calls on one builder
MaxPolicies == 2

(***************************************************************************)
(* Program constants.                                                      *)
(***************************************************************************)
\* max_retries and tries are u8
U8Max == 255

U8Wrap(n) == n % (U8Max + 1)

(***************************************************************************)
(* Response heads, connector outcomes.                                     *)
(***************************************************************************)
StatusCodes == {200, 500}

ResponseHeads == [status : StatusCodes]

\* ResponseHead::new(StatusCode::OK), the head line 133 hands to the policies
FabricatedOkHead == [status |-> 200]

NoHead == [status |-> 0]

ErrorKinds == {"Connect", "Timeout"}

\* Ok(ConnectResponse::Client(r)) / Ok(ConnectResponse::Tunnel(head, io))
OkOutcomes ==
    { [ok |-> TRUE, variant |-> v, head |-> h, err |-> "none"] :
        v \in {"Client", "Tunnel"}, h \in ResponseHeads }

\* Err(SendRequestError)
ErrOutcomes ==
    { [ok |-> FALSE, variant |-> "none", head |-> NoHead, err |-> e] :
        e \in ErrorKinds }

Outcomes == OkOutcomes \cup ErrOutcomes

NoOutcome == [ok |-> FALSE, variant |-> "none", head |-> NoHead, err |-> "none"]

(***************************************************************************)
(* Policies: RetryPolicy, IntoRetryPolicy, Inner::is_valid_response.       *)
(***************************************************************************)
\* the closures a caller may register, by name
CustomFns == {"is200", "not200"}

CustomFn(f, head) ==
    CASE f = "is200"  -> head.status = 200
      [] f = "not200" -> head.status # 200
      [] OTHER        -> TRUE

\* what a caller may hand to Retry::policy: a Vec<StatusCode> or a closure
PolicyInputs ==
    { [kind |-> "codes", codes |-> {200}, func |-> "none"] }
    \cup { [kind |-> "fn", codes |-> {}, func |-> f] : f \in CustomFns }

\* IntoRetryPolicy::into_policy, both impls
into_policy(p) ==
    IF p.kind = "codes"
    THEN [tag |-> "Status", codes |-> p.codes, func |-> "none"]
    ELSE [tag |-> "Custom", codes |-> {}, func |-> p.func]

\* the match arm of the closure given to all(): one policy's verdict
policy_verdict(policy, head) ==
    IF policy.tag = "Status"
    THEN TRUE
    ELSE CustomFn(policy.func, head)

\* Inner::is_valid_response: policies.iter().all(..), short-circuiting
RECURSIVE is_valid_response(_, _)
is_valid_response(pols, head) ==
    IF pols = <<>>
    THEN TRUE
    ELSE IF policy_verdict(Head(pols), head)
         THEN is_valid_response(Tail(pols), head)
         ELSE FALSE

(***************************************************************************)
(* Requests: RequestHead, RequestHeadType, Body, ConnectRequest.           *)
(***************************************************************************)
\* RequestHead::default()
RequestHeadDefault ==
    [ method     |-> "GET",
      uri        |-> "/",
      version    |-> "HTTP/1.1",
      peer_addr  |-> "none",
      headers    |-> <<>>,
      extensions |-> {} ]

\* the heads callers build; every field differs from the default
HeadA ==
    [ method     |-> "POST",
      uri        |-> "/a",
      version    |-> "HTTP/2",
      peer_addr  |-> "10.0.0.1:80",
      headers    |-> << <<"accept", "a">>, <<"accept", "b">> >>,
      extensions |-> {"ctx"} ]

NoExtra == [some |-> FALSE, map |-> <<>>]

\* RequestHeadType::Owned(h) / RequestHeadType::Rc(h, Option<HeaderMap>).
\* cell names the RequestHead object the variant holds or points to: "caller"
\* is the one the caller built; writes to its extensions (a RefCell) are seen
\* through every RequestHeadType with the same cell
RequestHeadTypes ==
    { [tag |-> "Owned", cell |-> "caller", head |-> HeadA, extra |-> NoExtra],
      [tag |-> "Rc", cell |-> "caller", head |-> HeadA,
       extra |-> [some |-> TRUE, map |-> << <<"x-extra", "1">> >>]] }

\* Body::None, Body::Empty, Body::Bytes(b), Body::Message(stream)
Bodies ==
    { [tag |-> "Bytes", bytes |-> <<104, 101, 108, 108, 111>>],
      [tag |-> "Empty", bytes |-> <<>>],
      [tag |-> "None", bytes |-> <<>>],
      [tag |-> "Message", bytes |-> <<115>>] }

\* a ConnectRequest::Tunnel carries no body
NoBody == [tag |-> "-", bytes |-> <<>>]

\* ConnectRequest::Client(head, body, addr) / ConnectRequest::Tunnel(head, addr)
Requests ==
    { [variant |-> "Client", head |-> h, body |-> b, addr |-> "10.0.0.9:443"] :
        h \in RequestHeadTypes, b \in Bodies }
    \cup
    { [variant |-> "Tunnel", head |-> h, body |-> NoBody, addr |-> "10.0.0.9:443"] :
        h \in RequestHeadTypes }

NoRequest ==
    [variant |-> "none",
     head |-> [tag |-> "Owned", cell |-> "none", head |-> RequestHeadDefault,
               extra |-> NoExtra],
     body |-> NoBody, addr |-> "none"]

\* a clone that forgets line 223 (the header collection)
clone_dropping_headers(head_type) ==
    IF head_type.tag = "Owned"
    THEN [ tag   |-> "Owned",
           cell  |-> "attempt",
           head  |-> [ RequestHeadDefault EXCEPT
                         !.uri       = head_type.head.uri,
                         !.method    = head_type.head.method,
                         !.version   = head_type.head.version,
                         !.peer_addr = head_type.head.peer_addr ],
           extra |-> NoExtra ]
    ELSE [ tag   |-> "Rc",
           cell  |-> head_type.cell,
           head  |-> head_type.head,
           extra |-> head_type.extra ]

\* clone_request_head_type: the Owned arm fills a RequestHead::default() of its
\* own ("attempt"), the Rc arm clones the Rc, which points to the same
\* RequestHead, extensions included
clone_request_head_type(head_type) ==
    IF head_type.tag = "Owned"
    THEN [ tag   |-> "Owned",
           cell  |-> "attempt",
           head  |-> [ RequestHeadDefault EXCEPT
                         !.uri       = head_type.head.uri,
                         !.method    = head_type.head.method,
                         !.version   = head_type.head.version,
                         !.peer_addr = head_type.head.peer_addr,
                         !.headers   = head_type.head.headers ],
           extra |-> NoExtra ]
    ELSE [ tag   |-> "Rc",
           cell  |-> head_type.cell,
           head  |-> head_type.head,
           extra |-> head_type.extra ]

(***************************************************************************)
(* State.                                                                  *)
(***************************************************************************)
VARIABLES
    max_retries,  \* Inner.max_retries
    policies,     \* Inner.policies
    pc,           \* where the builder / the future of call stands
    req,          \* the ConnectRequest given to call
    tries,        \* the local `tries` of the future
    sent,         \* the ConnectRequest handed to connector.call by the last attempt
    calls,        \* number of connector.call invocations made for req
    nfail,        \* number of those that resolved to Err
    oks,          \* the Ok outcomes the connector returned, in order
    last,         \* the outcome of the last resolved connector call
    judged,       \* the head the last is_valid_response call was given
    verdict,      \* what that call returned: "valid", "invalid", or "none" yet
    result,       \* what the future of call resolved to
    cur,          \* which of the two futures the variables pc .. result belong to
    other,        \* the locals of the other future, suspended or not yet called
    polled        \* the last poll_ready: the connector's answer and the service's

vars == <<max_retries, policies, pc, req, tries, sent, calls, nfail, oks, last,
          judged, verdict, result, cur, other, polled>>

NoResult == [tag |-> "none", res |-> NoOutcome]
OkResult(res) == [tag |-> "Ok", res |-> res]
ErrResult(res) == [tag |-> "Err", res |-> res]

RetriesDomain == (0 .. MaxRetries) \cup {U8Max}

\* the state one future of call owns (the async move block of line 116)
Locals ==
    [ pc |-> pc, req |-> req, tries |-> tries, sent |-> sent, calls |-> calls,
      nfail |-> nfail, oks |-> oks, last |-> last, judged |-> judged,
      verdict |-> verdict, result |-> result ]

\* a future slot for which call has not been made
FreshFuture ==
    [ pc |-> "ready", req |-> NoRequest, tries |-> 0, sent |-> NoRequest, calls |-> 0,
      nfail |-> 0, oks |-> <<>>, last |-> NoOutcome, judged |-> NoHead,
      verdict |-> "none", result |-> NoResult ]

\* Poll<Result<(), S::Error>> of poll_ready
PollResults == {"Ready", "Pending", "Err"}

NoPoll == [connector |-> "none", service |-> "none"]

\* Retry::new(retries)
Init ==
    /\ max_retries \in RetriesDomain
    /\ policies = <<>>
    /\ pc = "builder"
    /\ req = NoRequest
    /\ tries = 0
    /\ sent = NoRequest
    /\ calls = 0
    /\ nfail = 0
    /\ oks = <<>>
    /\ last = NoOutcome
    /\ judged = NoHead
    /\ verdict = "none"
    /\ result = NoResult
    /\ cur = 1
    /\ other = FreshFuture
    /\ polled = NoPoll

\* Retry::policy(p)
Policy(p) ==
    /\ pc = "builder"
    /\ Len(policies) < MaxPolicies
    /\ policies' = Append(policies, into_policy(p))
    /\ UNCHANGED <<max_retries, pc, req, tries, sent, calls, nfail, oks, last,
                   judged, verdict, result, cur, other, polled>>

\* Transform::new_transform
new_transform ==
    /\ pc = "builder"
    /\ pc' = "ready"
    /\ UNCHANGED <<max_retries, policies, req, tries, sent, calls, nfail, oks, last,
                   judged, verdict, result, cur, other, polled>>

(***************************************************************************)
(* RetryService::call.  `call` makes the future; the future is cut at its   *)
(* only suspension point, the await of connector.call: `first_poll` runs   *)
(* up to the first await, each resolve_* action runs from one resolution   *)
(* to the next await or return.                                            *)
(***************************************************************************)
\* the request each loop builds for one attempt (lines 124-126, 163-165, 181-183)
attempt_request(r) ==
    [ variant |-> "Client",
      head    |-> clone_request_head_type(r.head),
      body    |-> CASE r.body.tag = "Bytes" -> [tag |-> "Bytes", bytes |-> r.body.bytes]
                    [] r.body.tag = "Empty" -> [tag |-> "Empty", bytes |-> <<>>]
                    [] OTHER                -> [tag |-> "None", bytes |-> <<>>],
      addr    |-> r.addr ]

\* a match that lets tunnel requests fall into the `_` loop
arm_of_tunnel_looped(r) ==
    CASE r.body.tag = "Bytes"  -> "await_bytes"
      [] r.body.tag = "Empty"  -> "await_empty"
      [] OTHER                 -> "await_other"

\* the match on req and on body: which arm handles r
arm_of(r) ==
    CASE r.variant = "Tunnel"  -> "await_tunnel"
      [] r.body.tag = "Bytes"  -> "await_bytes"
      [] r.body.tag = "Empty"  -> "await_empty"
      [] OTHER                 -> "await_other"

\* an Err arm that never retries
budget_spent_always(t, max) == TRUE

\* an Err arm that gives up one attempt early
budget_spent_one_early(t, max) == t + 1 >= max

\* `tries == inner.max_retries` of the Err arms
budget_spent(t, max) == t = max

\* return Ok(res)
return_ok(out) ==
    /\ pc' = "done"
    /\ result' = OkResult(out)
    /\ UNCHANGED <<sent, calls>>

\* `tries += 1` followed by `return Ok(res)`: on u8 the increment of 255
\* panics where overflow checks are compiled in and wraps to 0 elsewhere
bump_then_return_ok(out) ==
    IF tries + 1 > U8Max
    THEN \/ /\ pc' = "panicked"
            /\ UNCHANGED <<tries, result, sent, calls>>
         \/ /\ tries' = U8Wrap(tries + 1)
            /\ return_ok(out)
    ELSE /\ tries' = tries + 1
         /\ return_ok(out)

\* an Err arm that issues every remaining attempt at once
retry_or_fail_fan_out(out) ==
    IF budget_spent(tries, max_retries)
    THEN /\ pc' = "done"
         /\ result' = ErrResult(out)
         /\ UNCHANGED <<tries, sent, calls>>
    ELSE /\ tries' = max_retries
         /\ sent' = attempt_request(req)
         /\ calls' = max_retries + 1
         /\ UNCHANGED <<pc, result>>

\* the Err(e) arm of the three loops, then the next iteration up to its await
retry_or_fail(out) ==
    IF budget_spent(tries, max_retries)
    THEN /\ pc' = "done"
         /\ result' = ErrResult(out)
         /\ UNCHANGED <<tries, sent, calls>>
    ELSE /\ tries' = U8Wrap(tries + 1)
         /\ sent' = attempt_request(req)
         /\ calls' = calls + 1
         /\ UNCHANGED <<pc, result>>

\* bookkeeping of the connector's answers
record_outcome(out) ==
    /\ last' = out
    /\ nfail' = IF out.ok THEN nfail ELSE nfail + 1
    /\ oks' = IF out.ok THEN Append(oks, out) ELSE oks

\* call(req): clones the two Rc's and returns Box::pin(async move {..}), a
\* future that owns req; nothing of the block runs before the future is polled
call(r) ==
    /\ pc = "ready"
    /\ req' = r
    /\ pc' = "created"
    /\ UNCHANGED <<max_retries, policies, tries, sent, calls, nfail, oks, last,
                   judged, verdict, result, cur, other, polled>>

\* the first poll of the future: `tries = 0`, the two matches, and the first
\* connector.call, up to its await
first_poll ==
    /\ pc = "created"
    /\ tries' = 0
    /\ sent' = IF req.variant = "Tunnel" THEN req ELSE attempt_request(req)
    /\ calls' = 1
    /\ pc' = arm_of(req)
    /\ UNCHANGED <<max_retries, policies, req, nfail, oks, last, judged, verdict,
                   result, cur, other, polled>>

\* inner.is_valid_response(head) as called from the Body::Bytes arm
judge(head) ==
    /\ judged' = head
    /\ verdict' = IF is_valid_response(policies, head) THEN "valid" ELSE "invalid"

\* Body::Bytes arm: the connector call of line 126 resolved to out
resolve_bytes(out) ==
    /\ pc = "await_bytes"
    /\ record_outcome(out)
    /\ IF out.ok
       THEN IF out.variant = "Client"
            THEN /\ judge(FabricatedOkHead)
                 /\ IF verdict' = "valid"
                    THEN return_ok(out) /\ UNCHANGED tries
                    ELSE bump_then_return_ok(out)
            ELSE /\ judge(out.head)
                 /\ IF verdict' = "valid"
                    THEN bump_then_return_ok(out)
                    ELSE bump_then_return_ok(out)
       ELSE retry_or_fail(out) /\ UNCHANGED <<judged, verdict>>
    /\ UNCHANGED <<max_retries, policies, req, cur, other, polled>>

\* Body::Empty arm
resolve_empty(out) ==
    /\ pc = "await_empty"
    /\ record_outcome(out)
    /\ IF out.ok
       THEN return_ok(out) /\ UNCHANGED tries
       ELSE retry_or_fail(out)
    /\ UNCHANGED <<max_retries, policies, req, judged, verdict, cur, other, polled>>

\* the `_` arm: Body::None and Body::Message
resolve_other(out) ==
    /\ pc = "await_other"
    /\ record_outcome(out)
    /\ IF out.ok
       THEN return_ok(out) /\ UNCHANGED tries
       ELSE retry_or_fail(out)
    /\ UNCHANGED <<max_retries, policies, req, judged, verdict, cur, other, polled>>

\* ConnectRequest::Tunnel arm: one call, its result passed through
resolve_tunnel(out) ==
    /\ pc = "await_tunnel"
    /\ record_outcome(out)
    /\ pc' = "done"
    /\ result' = IF out.ok THEN OkResult(out) ELSE ErrResult(out)
    /\ UNCHANGED <<max_retries, policies, req, tries, sent, calls, judged, verdict>>
    /\ UNCHANGED <<cur, other, polled>>

\* a service that reports ready whatever the connector says
always_ready(answer) == "Ready"

\* self.connector.poll_ready(ctx), returned as is
delegate_ready(answer) == answer

\* RetryService::poll_ready, the connector answering `answer`
poll_ready(answer) ==
    /\ pc # "builder"
    /\ polled' = [connector |-> answer, service |-> delegate_ready(answer)]
    /\ UNCHANGED <<max_retries, policies, pc, req, tries, sent, calls, nfail, oks, last,
                   judged, verdict, result, cur, other>>

\* a `tries` kept in the service and seen by every future
shared_tries(saved, running) == running

\* `let mut tries = 0` is a local of each future: the future that resumes
\* finds the value it left, not the value of the future that ran meanwhile
resumed_tries(saved, running) == saved

\* the executor leaves the current future at its await (or before its call, or
\* after its return) and turns to the other one
switch ==
    /\ pc # "builder"
    /\ cur' = 3 - cur
    /\ other' = Locals
    /\ pc' = other.pc
    /\ req' = other.req
    /\ tries' = resumed_tries(other.tries, tries)
    /\ sent' = other.sent
    /\ calls' = other.calls
    /\ nfail' = other.nfail
    /\ oks' = other.oks
    /\ last' = other.last
    /\ judged' = other.judged
    /\ verdict' = other.verdict
    /\ result' = other.result
    /\ UNCHANGED <<max_retries, policies, polled>>

Next ==
    \/ \E p \in PolicyInputs : Policy(p)
    \/ new_transform
    \/ \E r \in Requests : call(r)
    \/ first_poll
    \/ \E out \in Outcomes : resolve_bytes(out)
    \/ \E out \in Outcomes : resolve_empty(out)
    \/ \E out \in Outcomes : resolve_other(out)
    \/ \E out \in Outcomes : resolve_tunnel(out)

Spec == Init /\ [][Next]_vars

(***************************************************************************)
(* Two requests in flight on one RetryService, and its readiness check.    *)
(***************************************************************************)
\* the policy sets of the services of this specification
ConcPolicySets == { <<>> } \cup { <<into_policy(p)>> : p \in PolicyInputs }

ConcRequests == { r \in Requests : r.head.tag = "Owned" /\ r.body.tag # "None" }

ConcOutcomes == { o \in Outcomes : o.head.status # 200 /\ o.err # "Timeout" }

\* a service built by Retry::new, Retry::policy and new_transform
InitConc ==
    /\ max_retries \in 0 .. MaxRetries
    /\ policies \in ConcPolicySets
    /\ pc = "ready"
    /\ req = NoRequest
    /\ tries = 0
    /\ sent = NoRequest
    /\ calls = 0
    /\ nfail = 0
    /\ oks = <<>>
    /\ last = NoOutcome
    /\ judged = NoHead
    /\ verdict = "none"
    /\ result = NoResult
    /\ cur = 1
    /\ other = FreshFuture
    /\ polled = NoPoll

NextConc ==
    \/ \E r \in ConcRequests : call(r)
    \/ first_poll
    \/ \E out \in ConcOutcomes : resolve_bytes(out)
    \/ \E out \in ConcOutcomes : resolve_empty(out)
    \/ \E out \in ConcOutcomes : resolve_other(out)
    \/ \E out \in ConcOutcomes : resolve_tunnel(out)
    \/ \E answer \in PollResults : poll_ready(answer)
    \/ switch

SpecConc == InitConc /\ [][NextConc]_vars

(***************************************************************************)
(* Vocabulary of the properties.                                           *)
(***************************************************************************)
\* a client request whose body is Buffered (Body::Bytes) or Empty
ReplayableClient ==
    /\ req.variant = "Client"
    /\ req.body.tag \in {"Bytes", "Empty"}

\* a client request whose body is of any other kind
UnreplayableClient ==
    /\ req.variant = "Client"
    /\ req.body.tag \notin {"Bytes", "Empty"}

Awaiting == pc \in {"await_bytes", "await_empty", "await_other", "await_tunnel"}

\* a StatusAccept policy accepts a head iff its status is in the set;
\* a Custom policy accepts iff its predicate returns true
PolicyAccepts(policy, head) ==
    IF policy.tag = "Status"
    THEN head.status \in policy.codes
    ELSE CustomFn(policy.func, head)

\* a head is valid iff every policy of the set accepts it
PolicySetAccepts(pols, head) ==
    \A i \in 1 .. Len(pols) : PolicyAccepts(pols[i], head)

\* the connector's result handed back unmodified
PassedThrough(out) == IF out.ok THEN OkResult(out) ELSE ErrResult(out)

\* the fields of a request head that go on the wire
WireHead(head_type) ==
    [ method    |-> head_type.head.method,
      uri       |-> head_type.head.uri,
      version   |-> head_type.head.version,
      peer_addr |-> head_type.head.peer_addr,
      headers   |-> head_type.head.headers,
      extra     |-> head_type.extra ]

(***************************************************************************)
(* C1                                                                      *)
(***************************************************************************)
\* C1: for a client request with a Buffered or Empty body, as long as every
\* connector call has failed, at most max_retries + 1 calls are made, the
\* (max_retries + 1)-th failure ends the call, and the call ends only then,
\* returning the failure of the last connector call.
C1_AllFailuresExhaustBudget ==
    (ReplayableClient /\ oks = <<>>) =>
        /\ calls <= max_retries + 1
        /\ (nfail = max_retries + 1 => pc = "done")
        /\ (pc = "done" =>
              /\ calls = max_retries + 1
              /\ nfail = max_retries + 1
              /\ result = ErrResult(last))
        /\ (pc # "done" => result = NoResult)

\* a request with a Buffered body and a budget of at least one retry has
\* failed on every attempt and the call has returned
C1_Witness ==
    /\ ReplayableClient
    /\ req.body.tag = "Bytes"
    /\ max_retries >= 1
    /\ pc = "done"
    /\ oks = <<>>
    /\ result.tag = "Err"

(***************************************************************************)
(* C2                                                                      *)
(***************************************************************************)
\* C2: for a client request with a Buffered or Empty body, when the
\* connector failed on attempts 1..k-1 and answers attempt k <= max_retries + 1
\* with a success whose head every policy accepts, exactly k connector calls
\* were made and the call returns that success.
C2_SuccessOnAttemptK ==
    ( /\ ReplayableClient
      /\ Len(oks) = 1
      /\ last = oks[1]
      /\ nfail <= max_retries
      /\ PolicySetAccepts(policies, last.head) ) =>
        /\ pc = "done"
        /\ calls = nfail + 1
        /\ result = OkResult(last)

(***************************************************************************)
(* C3                                                                      *)
(***************************************************************************)
\* C3: for a client request with a Buffered or Empty body, when the connector
\* never failed and every outcome it returned is rejected by the policy set,
\* the call has returned only after max_retries + 1 connector calls, and it
\* returns Ok with the outcome of the last call.
C3_AllRejectedExhaustBudget ==
    ( /\ ReplayableClient
      /\ pc = "done"
      /\ nfail = 0
      /\ \A i \in 1 .. Len(oks) : ~PolicySetAccepts(policies, oks[i].head) ) =>
        /\ calls = max_retries + 1
        /\ result = OkResult(last)

(***************************************************************************)
(* C4                                                                      *)
(***************************************************************************)
\* C4: for a client request with a Buffered or Empty body, a successful
\* outcome that the policy set rejects is returned to the caller only when
\* the attempt that produced it was the last of the budget (attempt number
\* max_retries + 1); before that another connector call is issued.
C4_RejectedOutcomeIsRetried ==
    ( /\ ReplayableClient
      /\ result.tag = "Ok"
      /\ ~PolicySetAccepts(policies, result.res.head) ) =>
        calls = max_retries + 1

(***************************************************************************)
(* C5                                                                      *)
(***************************************************************************)
\* C5: on every attempt of a client request the request handed to the
\* connector has the method, URI, version, peer address and header
\* collection of the original request, and for a Buffered body the bytes of
\* the original body.
C5_ReplayIsFaithful ==
    (req.variant = "Client" /\ calls >= 1) =>
        /\ sent.variant = "Client"
        /\ WireHead(sent.head) = WireHead(req.head)
        /\ sent.addr = req.addr
        /\ (req.body.tag = "Bytes" => sent.body = req.body)

\* the body b"hello" of an owned head was sent again after a failure and the
\* second attempt succeeded
C5_Witness ==
    /\ req.variant = "Client"
    /\ req.head.tag = "Owned"
    /\ req.body = [tag |-> "Bytes", bytes |-> <<104, 101, 108, 108, 111>>]
    /\ calls = 2
    /\ nfail = 1
    /\ pc = "done"
    /\ result.tag = "Ok"
    /\ sent.body.bytes = <<104, 101, 108, 108, 111>>

(***************************************************************************)
(* C6                                                                      *)
(***************************************************************************)
\* C6: a client request whose body is neither Buffered nor Empty makes one
\* connector call only, and once that call has resolved the call has
\* returned the connector's result unmodified.
C6_UnreplayableSingleCall ==
    UnreplayableClient =>
        /\ calls <= 1
        /\ (last # NoOutcome => pc = "done" /\ result = PassedThrough(last))

(***************************************************************************)
(* C7                                                                      *)
(***************************************************************************)
\* C7: a tunnel request makes one connector call only (none before its
\* future is first polled), with the request as given, and once that call has
\* resolved the call has returned the connector's result unmodified, whatever
\* max_retries and the policies are.
C7_TunnelSingleCall ==
    req.variant = "Tunnel" =>
        /\ calls <= 1
        /\ (calls = 0 <=> pc = "created")
        /\ (calls = 0 => last = NoOutcome /\ result = NoResult)
        /\ (calls = 1 => sent = req)
        /\ ((calls = 1 /\ last = NoOutcome) => pc = "await_tunnel" /\ result = NoResult)
        /\ (last # NoOutcome => pc = "done" /\ calls = 1 /\ result = PassedThrough(last))

\* a tunnel request failed once under a budget of at least one retry and a
\* non-empty policy set, and the call has returned
C7_Witness ==
    /\ req.variant = "Tunnel"
    /\ max_retries >= 1
    /\ policies # <<>>
    /\ pc = "done"
    /\ ~last.ok
    /\ result.tag = "Err"

(***************************************************************************)
(* C8                                                                      *)
(***************************************************************************)
\* C8: whenever is_valid_response has been called, it returned true if and
\* only if every policy of the set accepts the head it was given.
C8_ValidIffAllAccept ==
    verdict # "none" =>
        ((verdict = "valid") <=> PolicySetAccepts(policies, judged))

(***************************************************************************)
(* C9                                                                      *)
(***************************************************************************)
\* C9: for every registered Status policy and every head the policies were
\* given, the policy's verdict is true if and only if the head's status is a
\* member of the policy's set of codes.
C9_StatusAcceptsIffMember ==
    verdict # "none" =>
        \A i \in 1 .. Len(policies) :
            policies[i].tag = "Status" =>
                (policy_verdict(policies[i], judged)
                    <=> judged.status \in policies[i].codes)

(***************************************************************************)
(* C10                                                                     *)
(***************************************************************************)
C10_ErrOnlyWhenSpent ==
    (ReplayableClient /\ result.tag = "Err") =>
        /\ calls = max_retries + 1
        /\ result = ErrResult(last)
        /\ ~last.ok

C10_FailureBelowBudgetRetried ==
    ( /\ ReplayableClient
      /\ Awaiting
      /\ tries < max_retries
      /\ nfail' = nfail + 1 ) =>
        /\ pc' = pc
        /\ result' = NoResult
        /\ calls' = calls + 1
        /\ tries' = tries + 1

\* C10: for a client request with a Buffered or Empty body, a transport
\* failure met while tries < max_retries is not returned and another
\* connector call is made; and whenever the call returns a transport failure,
\* max_retries + 1 connector calls were made and the error returned is that
\* of the last one.
C10_FailuresAbsorbedUntilSpent ==
    /\ []C10_ErrOnlyWhenSpent
    /\ [][C10_FailureBelowBudgetRetried]_vars

\* a request with an Empty body failed max_retries + 1 >= 3 times with two
\* kinds of error and the call returned the last one
C10_Witness ==
    /\ ReplayableClient
    /\ req.body.tag = "Empty"
    /\ max_retries >= 2
    /\ pc = "done"
    /\ result = ErrResult(last)
    /\ last.err = "Timeout"

(***************************************************************************)
(* C11                                                                     *)
(***************************************************************************)
\* C11: for every request, the call returns Err only with the failure of the
\* last connector call it made, and when the last connector call it made
\* returned a success the call returns Ok with exactly that outcome, whatever
\* the policies say of it.
C11_RejectionNeverAnError ==
    /\ (result.tag = "Err" => ~last.ok /\ result = ErrResult(last))
    /\ ((last.ok /\ ~Awaiting) => pc = "done" /\ result = OkResult(last))

(***************************************************************************)
(* C12                                                                     *)
(***************************************************************************)
\* C12: for every request, at most max_retries + 1 connector calls are made,
\* and once no connector call made for it is unresolved the call has
\* returned.
C12_ReturnsWithinBudget ==
    /\ calls <= max_retries + 1
    /\ ((calls >= 1 /\ ~Awaiting) => pc = "done" /\ result # NoResult)

(***************************************************************************)
(* C13                                                                     *)
(***************************************************************************)
\* the connector calls made for the request and not yet resolved
InFlight == calls - (nfail + Len(oks))

C13_AtMostOneInFlight ==
    /\ InFlight \in {0, 1}
    /\ (InFlight = 1 <=> Awaiting)

C13_IssuedAfterResolution ==
    calls' # calls =>
        /\ calls' = calls + 1
        /\ nfail' + Len(oks') = calls

\* C13: at every moment at most one connector call made for the request is
\* unresolved, and a connector call is issued only when every earlier one
\* has resolved.
C13_AttemptsSequential ==
    /\ []C13_AtMostOneInFlight
    /\ [][C13_IssuedAfterResolution]_vars

\* the third attempt of a request is awaited after two failures
C13_Witness ==
    /\ ReplayableClient
    /\ Awaiting
    /\ calls = 3
    /\ nfail = 2
    /\ InFlight = 1

(***************************************************************************)
(* C14 (two requests in flight, SpecConc)                                  *)
(***************************************************************************)
\* the locals of future t, whether it is the current one or the other one
Future(t) == IF cur = t THEN Locals ELSE other

FutureAwaiting(f) ==
    f.pc \in {"await_bytes", "await_empty", "await_other", "await_tunnel"}

\* the counter, the number of connector calls and the result of a future are
\* those its own connector outcomes and the configuration determine
OwnHistoryDecides(f) ==
    /\ f.calls = f.nfail + Len(f.oks) + (IF FutureAwaiting(f) THEN 1 ELSE 0)
    /\ (FutureAwaiting(f) => f.tries = f.nfail /\ f.oks = <<>> /\ f.result = NoResult)
    /\ (f.pc \in {"ready", "created"} =>
          f.calls = 0 /\ f.tries = 0 /\ f.result = NoResult)
    /\ (f.pc = "done" =>
          /\ f.result = PassedThrough(f.last)
          /\ Len(f.oks) = (IF f.last.ok THEN 1 ELSE 0)
          /\ (f.req.variant = "Tunnel" => f.calls = 1)
          /\ ((f.req.variant = "Client" /\ ~f.last.ok) =>
                f.nfail = max_retries + 1 /\ f.tries = max_retries))

C14_EachFutureItsOwn ==
    \A t \in {1, 2} : OwnHistoryDecides(Future(t))

C14_NoInterference ==
    /\ max_retries' = max_retries
    /\ policies' = policies
    /\ \A t \in {1, 2} :
          (cur' # cur \/ t # cur) => Future(t)' = Future(t)

\* C14: with two calls in flight, under every interleaving, each future has
\* its own attempt counter; its number of connector calls and its result
\* follow from its own connector outcomes and the configuration; a step of
\* one future changes nothing of the other, and no step changes the
\* configuration.
C14_RequestsDoNotInteract ==
    /\ []C14_EachFutureItsOwn
    /\ [][C14_NoInterference]_vars

\* both futures await a connector call, the first after two failures, the
\* second on its first attempt, the second being the current one
C14_Witness ==
    /\ cur = 2
    /\ Awaiting
    /\ tries = 0
    /\ FutureAwaiting(other)
    /\ other.tries = 2
    /\ other.nfail = 2

(***************************************************************************)
(* C15 (SpecConc)                                                          *)
(***************************************************************************)
\* C15: whatever max_retries, the policies and the number of requests in
\* flight, poll_ready returns what the connector's poll_ready returned.
C15_ReadinessDelegated ==
    polled.service = polled.connector

\* the connector answered Pending, and the service with it, while two
\* requests were in flight under a non-empty policy set
C15_Witness ==
    /\ polled = [connector |-> "Pending", service |-> "Pending"]
    /\ Awaiting
    /\ FutureAwaiting(other)
    /\ policies # <<>>
    /\ max_retries >= 1

(***************************************************************************)
(* C16                                                                     *)
(***************************************************************************)
\* C16: when the connector has answered a client request with a Buffered
\* body with a success, the head the policies were given is the head of that
\* outcome.
C16_JudgedOnReturnedHead ==
    ( /\ req.variant = "Client"
      /\ req.body.tag = "Bytes"
      /\ last.ok ) =>
        /\ verdict # "none"
        /\ judged = last.head

(***************************************************************************)
(* C17                                                                     *)
(***************************************************************************)
\* C17: when the connector has answered a client request with a Buffered or
\* Empty body with a Tunnel outcome, the outcome is returned if the policy
\* set accepts its head, and if the policy set rejects its head while fewer
\* than max_retries attempts preceded it, another connector call is awaited
\* and nothing is returned.
C17_TunnelOutcomeRetriedLikeDirect ==
    ( /\ ReplayableClient
      /\ last.ok
      /\ last.variant = "Tunnel"
      /\ Len(oks) = 1 ) =>
        IF is_valid_response(policies, last.head)
        THEN pc = "done" /\ result = OkResult(last)
        ELSE nfail < max_retries => (Awaiting /\ result = NoResult)

(***************************************************************************)
(* C18                                                                     *)
(***************************************************************************)
\* C18: the head handed to the connector on an attempt of a client request
\* carries none of the extension data of the original head and is not the
\* original's RequestHead object, for both head variants.
C18_CloneIndependent ==
    (req.variant = "Client" /\ calls >= 1) =>
        /\ sent.head.head.extensions = {}
        /\ sent.head.cell # req.head.cell

(***************************************************************************)
(* C19                                                                     *)
(***************************************************************************)
C19_IncrementExact ==
    /\ pc' # "panicked"
    /\ (tries' # tries => tries' = tries + 1)

\* C19: (tries never exceeding max_retries,) no increment of tries overflows
\* the u8 range: no step panics on it and every change of tries is an exact
\* increment by one.
C19_TriesNeverOverflow == [][C19_IncrementExact]_vars

(***************************************************************************)
(* C20                                                                     *)
(***************************************************************************)
\* C20: on every connector call made for a client request the body handed to
\* the connector is the body the caller supplied, of the same kind and
\* content, whatever the kind.
C20_BodyIsTheCallers ==
    (req.variant = "Client" /\ calls >= 1) => sent.body = req.body
====
